---- MODULE Spec2Model ----
(***************************************************************************)
(* A model of the vector-memory skill: the markdown chunker (lib.js), the  *)
(* workspace indexer (index.js), the ad-hoc ingester (ingest.js) and the   *)
(* session ingester (ingest-sessions.js), all reading and writing the same *)
(* three files: vectors.json (the store), file-meta.json (the file         *)
(* tracker) and session-ingest-state.json (the session tracker).           *)
(*                                                                         *)
(* Strings.  A JavaScript string is modelled as the sequence of its lines  *)
(* (what split('\n') returns), so the empty string is <<EmptyLine>>.  A    *)
(* line is a run-length encoded sequence of tokens: the run                *)
(* [c |-> "x", n |-> 3000, w |-> 1] is "x" repeated 3000 times, and        *)
(* [c |-> "Intro", n |-> 1, w |-> 5] is the word Intro.  w is the number   *)
(* of leading characters of the token that are present, so a slice that    *)
(* cuts a token leaves a run with a smaller w.  Lines are kept canonical   *)
(* (adjacent runs differ), so equality of models is equality of strings.   *)
(***************************************************************************)
EXTENDS Integers, Sequences, FiniteSets, TLC

\* ------------------------------------------------------------------ strings

R(c, n) == [c |-> c, n |-> n, w |-> Len(c)]

EmptyLine == <<>>

EmptyString == <<EmptyLine>>

\* One-line string made of the given runs.
Str(line) == <<line>>

RunLen(r) == r.n * r.w

RECURSIVE LineLen(_)
LineLen(l) == IF l = <<>> THEN 0 ELSE RunLen(l[1]) + LineLen(Tail(l))

RECURSIVE SumLineLen(_)
SumLineLen(s) == IF s = <<>> THEN 0 ELSE LineLen(s[1]) + SumLineLen(Tail(s))

\* s.length : the characters of the lines plus one newline between two lines.
StrLen(s) == SumLineLen(s) + (Len(s) - 1)

\* \s within a line
IsSpace(r) == r.c \in {" ", "\t"}

IsBlank(l) == \A i \in 1..Len(l) : IsSpace(l[i])

RECURSIVE TrimStartLine(_)
TrimStartLine(l) ==
    IF l # <<>> /\ IsSpace(l[1]) THEN TrimStartLine(Tail(l)) ELSE l

RECURSIVE TrimEndLine(_)
TrimEndLine(l) ==
    IF l # <<>> /\ IsSpace(l[Len(l)])
    THEN TrimEndLine(SubSeq(l, 1, Len(l) - 1))
    ELSE l

RECURSIVE DropBlankHead(_)
DropBlankHead(s) ==
    IF s # <<>> /\ IsBlank(s[1]) THEN DropBlankHead(Tail(s)) ELSE s

RECURSIVE DropBlankTail(_)
DropBlankTail(s) ==
    IF s # <<>> /\ IsBlank(s[Len(s)])
    THEN DropBlankTail(SubSeq(s, 1, Len(s) - 1))
    ELSE s

\* String.prototype.trim : newlines, blanks and tabs go from both ends.
trim(s) ==
    LET t == DropBlankTail(DropBlankHead(s))
    IN  IF t = <<>> THEN EmptyString
        ELSE LET u == [t EXCEPT ![1] = TrimStartLine(t[1])]
             IN  [u EXCEPT ![Len(u)] = TrimEndLine(u[Len(u)])]

\* lines.join('\n') : no line at all joins to the empty string.
join(lines) == IF lines = <<>> THEN EmptyString ELSE lines

\* Concatenation of two lines, keeping the run-length encoding canonical.
ConcatLine(a, b) ==
    IF a = <<>> THEN b
    ELSE IF b = <<>> THEN a
    ELSE LET x == a[Len(a)]
             y == b[1]
         IN  IF x.c = y.c /\ x.w = Len(x.c) /\ y.w = Len(y.c)
             THEN SubSeq(a, 1, Len(a) - 1)
                    \o <<[c |-> x.c, n |-> x.n + y.n, w |-> x.w]>>
                    \o Tail(b)
             ELSE a \o b

\* s + t for strings: the last line of s runs on into the first line of t.
Concat(s, t) ==
    SubSeq(s, 1, Len(s) - 1) \o <<ConcatLine(s[Len(s)], t[1])>> \o Tail(t)

\* The first k characters of a line.
RECURSIVE SliceLine(_, _)
SliceLine(l, k) ==
    IF l = <<>> \/ k <= 0 THEN <<>>
    ELSE IF RunLen(l[1]) <= k
         THEN ConcatLine(<<l[1]>>, SliceLine(Tail(l), k - RunLen(l[1])))
         ELSE LET r == l[1]
                  q == k \div r.w
                  p == k % r.w
              IN  (IF q > 0 THEN <<[r EXCEPT !.n = q]>> ELSE <<>>)
                    \o (IF p > 0 THEN <<[c |-> r.c, n |-> 1, w |-> p]>> ELSE <<>>)

\* s.slice(0, k)
RECURSIVE slice0(_, _)
slice0(s, k) ==
    IF Len(s) = 1 THEN <<SliceLine(s[1], k)>>
    ELSE IF LineLen(s[1]) >= k THEN <<SliceLine(s[1], k)>>
    ELSE <<s[1]>> \o slice0(Tail(s), k - LineLen(s[1]) - 1)

\* s.includes(tok), for a token that strings hold only as a whole run.
includes(s, tok) ==
    \E i \in 1..Len(s) : \E j \in 1..Len(s[i]) :
        s[i][j].c = tok /\ s[i][j].w = Len(tok)

\* ------------------------------------------------------------------ chunker

maxChars == 3000

minChars == 20

minBuf == 100

\* /^#{1,3}\s/.test(line)
isHeading(line) ==
    /\ Len(line) >= 2
    /\ line[1].c = "#"
    /\ line[1].n \in 1..3
    /\ IsSpace(line[2])

\* line.replace(/^#+\s*/, '')
headingText(line) ==
    IF line # <<>> /\ line[1].c = "#" THEN TrimStartLine(Tail(line)) ELSE line

\* content.split(/\n\n+/) for a trimmed, non-empty content: the groups of
\* lines between maximal runs of empty lines.
RECURSIVE splitParas(_, _, _)
splitParas(lines, cur, acc) ==
    IF lines = <<>> THEN (IF cur = <<>> THEN acc ELSE Append(acc, cur))
    ELSE IF lines[1] = EmptyLine
         THEN splitParas(Tail(lines), <<>>,
                         IF cur = <<>> THEN acc ELSE Append(acc, cur))
         ELSE splitParas(Tail(lines), Append(cur, lines[1]), acc)

paragraphs(content) == splitParas(content, <<>>, <<>>)

mkChunk(text, filePath, startLine, endLine, heading) ==
    [text |-> text, file |-> filePath, startLine |-> startLine,
     endLine |-> endLine, heading |-> heading]

\* The loop over the paragraphs of an oversized section.  st holds the
\* loop's variables: chunks, buf, bufStart, lineOffset.
RECURSIVE packParas(_, _, _, _)
packParas(paras, st, current, filePath) ==
    IF paras = <<>> THEN st
    ELSE LET para == paras[1]
             cut  == /\ StrLen(st.buf) + StrLen(para) > maxChars
                     /\ StrLen(st.buf) > minBuf
             s1   == IF cut
                     THEN [st EXCEPT
                             !.chunks = Append(@,
                                 mkChunk(trim(st.buf), filePath, st.bufStart,
                                         st.bufStart + Len(st.buf) - 1,
                                         current.heading)),
                             !.buf = EmptyString,
                             !.bufStart = current.startLine + st.lineOffset]
                     ELSE st
             buf2 == IF StrLen(s1.buf) > 0
                     THEN s1.buf \o <<EmptyLine>> \o para
                     ELSE para
         IN  packParas(Tail(paras),
                       [s1 EXCEPT !.buf = buf2,
                                  !.lineOffset = @ + Len(para) + 1],
                       current, filePath)

\* flush() of chunkMarkdown: the chunks after the current section is flushed.
flush(chunks, current, filePath) ==
    LET content == trim(join(current.lines))
        lastLine == current.startLine + Len(current.lines) - 1
    IN  IF StrLen(content) < minChars THEN chunks
        ELSE IF StrLen(content) > maxChars
        THEN LET st == packParas(paragraphs(content),
                                 [chunks |-> chunks, buf |-> EmptyString,
                                  bufStart |-> current.startLine,
                                  lineOffset |-> 0],
                                 current, filePath)
             IN  IF StrLen(trim(st.buf)) > minChars
                 THEN Append(st.chunks,
                             mkChunk(trim(st.buf), filePath, st.bufStart,
                                     lastLine, current.heading))
                 ELSE st.chunks
        ELSE Append(chunks,
                    mkChunk(content, filePath, current.startLine, lastLine,
                            current.heading))

\* The loop over the lines of the document; i is the 0-based line index.
RECURSIVE chunkLines(_, _, _, _, _)
chunkLines(lines, i, chunks, current, filePath) ==
    IF i >= Len(lines) THEN flush(chunks, current, filePath)
    ELSE LET line == lines[i + 1]
         IN  IF isHeading(line) /\ Len(current.lines) > 0
             THEN chunkLines(lines, i + 1, flush(chunks, current, filePath),
                             [lines |-> <<line>>, startLine |-> i + 1,
                              heading |-> headingText(line)],
                             filePath)
             ELSE chunkLines(lines, i + 1, chunks,
                             [current EXCEPT !.lines = Append(@, line)],
                             filePath)

chunkMarkdown(text, filePath) ==
    chunkLines(text, 0, <<>>,
               [lines |-> <<>>, startLine |-> 1, heading |-> EmptyLine],
               filePath)

\* ------------------------------------------------------------------ bounds

\* The clock advances in steps of TickSteps, MaxTicks cooldowns in all at most.
MaxTicks == 2

\* Changes of the environment and runs of the programs, in all.
MaxSteps == 3

\* Lines a session log holds at most.
MaxLog == 9

\* ------------------------------------------------------------------ the world

\* Names and ids are strings built by concatenation; a name is modelled as
\* the sequence of its tokens, and concatenation as \o, so that two ids are
\* equal in the model exactly when the strings are.

\* Workspace files (paths relative to the workspace root), in the sorted
\* order findFiles returns them.  The second one is a legal file name that
\* reads like the source of an ad-hoc ingest.
PathSeq == << <<"a.md">>, <<"ingest:", "x.md">> >>

Paths == {PathSeq[i] : i \in 1..Len(PathSeq)}

\* --source labels of ad-hoc ingests.
Sources == { <<"x.md">> }

\* sessions.json : logical key -> sessionId, in the file's order.
SessionsIndex ==
    << [key |-> <<"agent:main:", "main">>, sessionId |-> "s1"],
       [key |-> <<"agent:main:", "cron">>, sessionId |-> "s2"] >>

Sids == {SessionsIndex[i].sessionId : i \in 1..Len(SessionsIndex)}

\* Documents.  Body(n) is a line of n letters.
Body(n) == <<R("x", n)>>

DocShort == << <<R("#", 1), R(" ", 1), R("Note", 1)>>, Body(5) >>

DocOne == << <<R("#", 1), R(" ", 1), R("Intro", 1)>>, Body(40) >>

DocTwo == << Body(30), EmptyLine,
             <<R("#", 2), R(" ", 1), R("Details", 1)>>, Body(50) >>

DocBig == << <<R("#", 1), R(" ", 1), R("Big", 1)>>, Body(1600), EmptyLine,
             Body(1500), EmptyLine, Body(200),
             <<R("#", 3), R(" ", 2), R("Tail", 1)>>, Body(25) >>

\* "# Intro\nHello world, this is a test note.\n\n# Details\nMore content
\* here about the project."
DocIntro == << <<R("#", 1), R(" ", 1), R("Intro", 1)>>,
               <<R("Hello world, this is a test note.", 1)>>, EmptyLine,
               <<R("#", 1), R(" ", 1), R("Details", 1)>>,
               <<R("More content here about the project.", 1)>> >>

\* Text before the first heading, a heading of level 4, one of level 3.
DocLead == << Body(40), <<R("#", 4), R(" ", 1), R("Deep", 1)>>, Body(30),
              <<R("#", 3), R(" ", 1), R("Sub", 1)>>, Body(35) >>

\* Three paragraphs that together exceed maxChars.
DocPack == << Body(1500), EmptyLine, Body(1500), EmptyLine, Body(200) >>

\* A short paragraph before a long one.
DocSmallFirst == << Body(50), EmptyLine, Body(2990), EmptyLine, Body(300) >>

\* One paragraph longer than maxChars.
DocHuge == << <<R("#", 2), R(" ", 1), R("Huge", 1)>>, Body(3500) >>

\* One paragraph longer than maxEmbedChars.
DocGiant == << <<R("#", 2), R(" ", 1), R("Giant", 1)>>, Body(9000) >>

Docs ==
    [short |-> DocShort, one |-> DocOne, two |-> DocTwo, big |-> DocBig,
     intro |-> DocIntro, lead |-> DocLead, pack |-> DocPack,
     smallFirst |-> DocSmallFirst, huge |-> DocHuge, giant |-> DocGiant]

\* What the environment writes into workspace files and hands to ingest.js.
FileDocs ==
    [p \in Paths |-> IF p = PathSeq[1] THEN {"short", "two"} ELSE {"one"}]

IngestDocs == {"short", "two"}

\* The documents the chunker is tried on.
ChunkDocs == DOMAIN Docs

\* The same, where the three programs run over one store.
CoreDocs == [p \in Paths |-> IF p = PathSeq[1] THEN {"two"} ELSE {"big"}]

\* Embedding vectors the service may answer with.
Vectors == { <<1, 0>>, <<0, 1>> }

cooldownMs == 50000

recencyMs == 86400000

TickSteps == {cooldownMs}

StartTime == 2 * recencyMs

MaxTime == StartTime + MaxTicks * cooldownMs

\* A file that does not exist / a file holding data.  A file is corrupt
\* when its content is no JSON text: JSON.parse throws on it.
NoFile == [exists |-> FALSE, data |-> <<>>, corrupt |-> FALSE]

File(d) == [exists |-> TRUE, data |-> d, corrupt |-> FALSE]

EmptyMap == [k \in {} |-> 0]

put(m, k, v) == [x \in (DOMAIN m) \cup {k} |-> IF x = k THEN v ELSE m[x]]

restrict(m, S) == [x \in (DOMAIN m) \cap S |-> m[x]]

RECURSIVE flatten(_)
flatten(ss) == IF ss = <<>> THEN <<>> ELSE ss[1] \o flatten(Tail(ss))

Range(q) == {q[i] : i \in 1..Len(q)}

VARIABLES
    now,        \* Date.now()
    files,      \* the workspace: path -> NoFile or File([mtime, doc])
    logs,       \* the session logs: sessionId -> NoFile or File([mtime, lines])
    indexFile,  \* vectors.json
    metaFile,   \* file-meta.json
    stateFile,  \* session-ingest-state.json
    idx,        \* the running (or last) index.js process
    ing,        \* the running (or last) ingest.js process
    ses,        \* the running (or last) ingest-sessions.js process
    sea,        \* the running (or last) search.js process
    hist        \* history, for stating the properties

vars == <<now, files, logs, indexFile, metaFile, stateFile, idx, ing, ses, sea, hist>>

\* ------------------------------------------------------------------ lib.js storage

loadIndex(f) == IF f.exists THEN f.data ELSE <<>>

saveIndex(docs) == File(docs)

loadFileMeta(f) == IF f.exists THEN f.data ELSE EmptyMap

saveFileMeta(meta) == File(meta)

\* What a run has persisted so far, and the persisted files when it began.
Snapshot == [index |-> indexFile, meta |-> metaFile, state |-> stateFile]

NoSnapshot == [index |-> NoFile, meta |-> NoFile, state |-> NoFile]

\* ------------------------------------------------------------------ embedding client

BATCH_SIZE == 100

maxEmbedChars == 8000

\* texts.map(t => t.slice(0, 8000)) : what index.js, ingest.js and
\* ingest-sessions.js hand to getEmbeddings.
truncatedTexts(texts) ==
    [i \in 1..Len(texts) |-> slice0(texts[i].text, maxEmbedChars)]

\* The lengths of the texts of a request to the embedding service.
lengthsOf(texts) == [i \in 1..Len(texts) |-> StrLen(texts[i])]

\* The number of requests getEmbeddings makes for n texts.
batchCount(n) == (n + BATCH_SIZE - 1) \div BATCH_SIZE

\* The answers the service gives for n texts, one vector per text: here the
\* answers that give every text of the request the same vector.
Embeddings(n) == {[i \in 1..n |-> v] : v \in Vectors}

\* ------------------------------------------------------------------ index.js

NoOut == [status |-> "", message |-> ""]

Out(status, message) == [status |-> status, message |-> message]

IdxIdle ==
    [pc |-> "idle", full |-> FALSE, files |-> <<>>, fileMeta |-> EmptyMap,
     toIndex |-> <<>>, keptDocs |-> <<>>, allChunks |-> <<>>,
     newDocs |-> <<>>, out |-> NoOut, wrote |-> {}, embedCalls |-> 0,
     embedFailed |-> FALSE, repeat |-> FALSE, sent |-> <<>>,
     pre |-> NoSnapshot]

\* findFiles : the files that exist, sorted.
findFiles == SelectSeq(PathSeq, LAMBDA p : files[p].exists)

\* The complement of the "unchanged" test of the crawl loop.
needsIndex(full, fileMeta, relPath, mtime) ==
    ~ (~full /\ relPath \in DOMAIN fileMeta /\ fileMeta[relPath].mtime >= mtime)

toIndexOf(full, fileMeta, fs) ==
    LET ch == SelectSeq(fs, LAMBDA p :
                  needsIndex(full, fileMeta, p, files[p].data.mtime))
    IN  [i \in 1..Len(ch) |-> [relPath |-> ch[i], mtime |-> files[ch[i]].data.mtime]]

reindexPathsOf(toIndex) == {toIndex[i].relPath : i \in 1..Len(toIndex)}

\* A faulty variant: the old chunks of the files being reindexed are kept.
keptDocsKeepReindexed(existingDocs, reindexPaths, currentFiles) ==
    SelectSeq(existingDocs, LAMBDA d : d.file \in currentFiles)

keptDocsOf(existingDocs, reindexPaths, currentFiles) ==
    SelectSeq(existingDocs, LAMBDA d :
        d.file \notin reindexPaths /\ d.file \in currentFiles)

allChunksOf(toIndex) ==
    flatten([i \in 1..Len(toIndex) |->
        chunkMarkdown(Docs[files[toIndex[i].relPath].data.doc], toIndex[i].relPath)])

\* `${chunk.file}:${chunk.startLine}`
indexDocId(chunk) == chunk.file \o <<":", ToString(chunk.startLine)>>

indexNewDocs(allChunks, embeddings, t) ==
    [i \in 1..Len(allChunks) |->
        [id |-> indexDocId(allChunks[i]),
         file |-> allChunks[i].file,
         startLine |-> allChunks[i].startLine,
         endLine |-> allChunks[i].endLine,
         heading |-> allChunks[i].heading,
         text |-> allChunks[i].text,
         vector |-> embeddings[i],
         indexedAt |-> t]]

newMetaOf(fileMeta, currentFiles, toIndex) ==
    LET re == reindexPathsOf(toIndex)
        mt(p) == (CHOOSE i \in 1..Len(toIndex) : toIndex[i].relPath = p)
    IN  [p \in ((DOMAIN fileMeta) \cap currentFiles) \cup re |->
            IF p \in re THEN [mtime |-> toIndex[mt(p)].mtime] ELSE fileMeta[p]]

\* main, from the crawl to the first await that can fail (getEmbeddings),
\* or to the end when the run returns before it.
IndexStart(full) ==
    /\ idx.pc = "idle"
    /\ LET fs == findFiles
           fileMeta == IF full THEN EmptyMap ELSE loadFileMeta(metaFile)
           existingDocs == IF full THEN <<>> ELSE loadIndex(indexFile)
           currentFiles == Range(fs)
           toIndex == toIndexOf(full, fileMeta, fs)
           keptDocs == keptDocsOf(existingDocs, reindexPathsOf(toIndex), currentFiles)
           allChunks == allChunksOf(toIndex)
           run == [IdxIdle EXCEPT !.full = full, !.files = fs,
                                  !.fileMeta = fileMeta, !.toIndex = toIndex,
                                  !.pre = Snapshot,
                                  !.repeat = hist.lastIdx = "ok" /\ ~hist.changed]
       IN  IF toIndex = <<>>
           THEN /\ idx' = [run EXCEPT !.pc = "done",
                                      !.out = Out("ok", "No files changed")]
                /\ UNCHANGED indexFile
           ELSE IF allChunks = <<>>
           THEN /\ indexFile' = saveIndex(keptDocs)
                /\ idx' = [run EXCEPT !.pc = "done", !.keptDocs = keptDocs,
                                      !.wrote = {"index"},
                                      !.out = Out("ok", "No content to index")]
           ELSE /\ idx' = [run EXCEPT !.pc = "embedding", !.keptDocs = keptDocs,
                                      !.allChunks = allChunks,
                                      !.sent = lengthsOf(truncatedTexts(allChunks))]
                /\ UNCHANGED indexFile
    /\ hist' = [hist EXCEPT !.changed = FALSE, !.steps = @ + 1, !.during = {}]
    /\ UNCHANGED <<sea, now, files, logs, metaFile, stateFile, ing, ses>>

\* A faulty variant: the store is loaded again before it is written.
IndexEmbedOkReloading(embeddings) ==
    /\ idx.pc = "embedding"
    /\ LET newDocs == indexNewDocs(idx.allChunks, embeddings, now)
           finalDocs == SelectSeq(loadIndex(indexFile), LAMBDA d :
                            d.file \notin reindexPathsOf(idx.toIndex)) \o newDocs
       IN  /\ indexFile' = saveIndex(finalDocs)
           /\ idx' = [idx EXCEPT !.pc = "saveMeta", !.newDocs = newDocs,
                                 !.embedCalls = batchCount(Len(idx.allChunks)),
                                 !.wrote = @ \cup {"index"}]
    /\ UNCHANGED <<sea, now, files, logs, metaFile, stateFile, ing, ses, hist>>

\* getEmbeddings answered: the new docs are built and the store is written.
IndexEmbedOk(embeddings) ==
    /\ idx.pc = "embedding"
    /\ LET newDocs == indexNewDocs(idx.allChunks, embeddings, now)
           finalDocs == idx.keptDocs \o newDocs
       IN  /\ indexFile' = saveIndex(finalDocs)
           /\ idx' = [idx EXCEPT !.pc = "saveMeta", !.newDocs = newDocs,
                                 !.embedCalls = batchCount(Len(idx.allChunks)),
                                 !.wrote = @ \cup {"index"}]
    /\ UNCHANGED <<sea, now, files, logs, metaFile, stateFile, ing, ses, hist>>

\* getEmbeddings threw: main().catch reports the error and exits.
IndexEmbedFail ==
    /\ idx.pc = "embedding"
    /\ idx' = [idx EXCEPT !.pc = "done", !.embedFailed = TRUE,
                          !.embedCalls = 1,
                          !.out = Out("error", "embedding failed")]
    /\ UNCHANGED <<sea, now, files, logs, indexFile, metaFile, stateFile, ing, ses, hist>>

\* The file tracker is written and the result reported.
IndexSaveMeta ==
    /\ idx.pc = "saveMeta"
    /\ metaFile' = saveFileMeta(newMetaOf(idx.fileMeta, Range(idx.files), idx.toIndex))
    /\ idx' = [idx EXCEPT !.pc = "done", !.wrote = @ \cup {"meta"},
                          !.out = Out("ok", "indexed")]
    /\ UNCHANGED <<sea, now, files, logs, indexFile, stateFile, ing, ses, hist>>

\* The process is gone.
IndexExit ==
    /\ idx.pc = "done"
    /\ idx' = IdxIdle
    /\ hist' = [hist EXCEPT !.lastIdx =
                   IF idx.out.status = "ok" /\ ~idx.full THEN "ok" ELSE "other",
                             !.crash =
                   IF idx.out.status = "ok" THEN @ \ {"idx"} ELSE @]
    /\ UNCHANGED <<sea, now, files, logs, indexFile, metaFile, stateFile, ing, ses>>

\* An incremental run over a corrupt tracker or store: JSON.parse throws in
\* loadFileMeta or loadIndex, and main().catch reports the error and exits.
IndexLoadThrows ==
    /\ idx.pc = "idle"
    /\ metaFile.corrupt \/ indexFile.corrupt
    /\ idx' = [IdxIdle EXCEPT !.pc = "done", !.files = findFiles,
                              !.pre = Snapshot,
                              !.out = Out("error", "Unexpected token")]
    /\ hist' = [hist EXCEPT !.changed = FALSE, !.steps = @ + 1, !.during = {}]
    /\ UNCHANGED <<sea, now, files, logs, indexFile, metaFile, stateFile, ing, ses>>

\* main, whatever the tracker and the store hold: a full run loads neither.
IndexRun(full) ==
    IF ~full /\ (metaFile.corrupt \/ indexFile.corrupt)
    THEN IndexLoadThrows
    ELSE IndexStart(full)

\* The process is killed after saveIndex and before saveFileMeta.
IndexCrash ==
    /\ idx.pc = "saveMeta"
    /\ idx' = IdxIdle
    /\ hist' = [hist EXCEPT !.lastIdx = "other", !.crash = @ \cup {"idx"}]
    /\ UNCHANGED <<sea, now, files, logs, indexFile, metaFile, stateFile, ing, ses>>

\* ------------------------------------------------------------------ ingest.js

IngIdle ==
    [pc |-> "idle", source |-> <<>>, text |-> EmptyString, chunks |-> <<>>,
     newDocs |-> <<>>, out |-> NoOut, wrote |-> {}, embedCalls |-> 0, embedFailed |-> FALSE,
     sent |-> <<>>, pre |-> NoSnapshot]

\* `ingest:${source}`
ingestFile(source) == <<"ingest:">> \o source

\* `ingest:${source}:${i}`, i counted from 0
ingestDocId(source, i) == <<"ingest:">> \o source \o <<":", ToString(i)>>

\* A faulty variant: the earlier chunks of the source are kept.
ingestKeepAll(docs, source) == docs

ingestFiltered(docs, source) ==
    SelectSeq(docs, LAMBDA d : d.file # ingestFile(source))

ingestNewDocs(chunks, source, embeddings, t) ==
    [i \in 1..Len(chunks) |->
        [id |-> ingestDocId(source, i - 1),
         file |-> ingestFile(source),
         startLine |-> chunks[i].startLine,
         endLine |-> chunks[i].endLine,
         heading |-> chunks[i].heading,
         text |-> chunks[i].text,
         vector |-> embeddings[i],
         indexedAt |-> t]]

\* main, up to getEmbeddings; text is the --text argument or the --file's content.
IngestStart(source, text) ==
    /\ ing.pc = "idle"
    /\ LET chunks == chunkMarkdown(text, ingestFile(source))
           run == [IngIdle EXCEPT !.source = source, !.text = text,
                                  !.pre = Snapshot]
       IN  IF chunks = <<>>
           THEN ing' = [run EXCEPT !.pc = "done",
                                   !.out = Out("ok", "No content to ingest")]
           ELSE ing' = [run EXCEPT !.pc = "embedding", !.chunks = chunks,
                                   !.sent = lengthsOf(truncatedTexts(chunks))]
    /\ hist' = [hist EXCEPT !.steps = @ + 1]
    /\ UNCHANGED <<sea, now, files, logs, indexFile, metaFile, stateFile, idx, ses>>

IngestEmbedOk(embeddings) ==
    /\ ing.pc = "embedding"
    /\ LET docs == loadIndex(indexFile)
           filtered == ingestFiltered(docs, ing.source)
           newDocs == ingestNewDocs(ing.chunks, ing.source, embeddings, now)
       IN  /\ indexFile' = saveIndex(filtered \o newDocs)
           /\ ing' = [ing EXCEPT !.pc = "done", !.newDocs = newDocs,
                                 !.embedCalls = batchCount(Len(ing.chunks)),
                                 !.wrote = {"index"},
                                 !.out = Out("ok", "ingested")]
    /\ UNCHANGED <<sea, now, files, logs, metaFile, stateFile, idx, ses, hist>>

IngestEmbedFail ==
    /\ ing.pc = "embedding"
    /\ ing' = [ing EXCEPT !.pc = "done", !.embedFailed = TRUE, !.embedCalls = 1,
                          !.out = Out("error", "embedding failed")]
    /\ UNCHANGED <<sea, now, files, logs, indexFile, metaFile, stateFile, idx, ses, hist>>

IngestExit ==
    /\ ing.pc = "done"
    /\ ing' = IngIdle
    /\ UNCHANGED <<sea, now, files, logs, indexFile, metaFile, stateFile, idx, ses, hist>>

\* ------------------------------------------------------------------ ingest-sessions.js

\* A message content: a string, an array of parts, or neither.
NoContent == [t |-> "none", s |-> EmptyString, parts |-> <<>>]

StringContent(text) == [t |-> "string", s |-> text, parts |-> <<>>]

ArrayContent(parts) == [t |-> "array", s |-> EmptyString, parts |-> parts]

NoMsg == [role |-> "", content |-> NoContent]

\* A line of a session log: not JSON at all (json = FALSE), an enveloped
\* record {type, message}, or a flat record {role, content}.
BadLine == [json |-> FALSE, type |-> "", message |-> NoMsg, flat |-> NoMsg]

Envelope(msg) == [json |-> TRUE, type |-> "message", message |-> msg, flat |-> NoMsg]

Flat(msg) == [json |-> TRUE, type |-> "", message |-> NoMsg, flat |-> msg]

truthy(content) ==
    \/ content.t = "array"
    \/ content.t = "string" /\ StrLen(content.s) > 0

\* The messages of a log, in order; lines that do not parse or hold no
\* message are passed over.
RECURSIVE parseJSONL(_)
parseJSONL(lines) ==
    IF lines = <<>> THEN <<>>
    ELSE LET entry == lines[1]
             here  == IF ~entry.json THEN <<>>
                      ELSE IF entry.type = "message" /\ entry.message # NoMsg
                           THEN <<entry.message>>
                      ELSE IF entry.flat.role # "" /\ truthy(entry.flat.content)
                           THEN <<entry.flat>>
                      ELSE <<>>
         IN  here \o parseJSONL(Tail(lines))

extractText(content) ==
    IF content.t = "string" THEN content.s
    ELSE IF content.t = "array"
    THEN LET texts == SelectSeq(content.parts, LAMBDA c : c.type = "text")
         IN  join(flatten([i \in 1..Len(texts) |-> texts[i].text]))
    ELSE EmptyString

minMsgChars == 10

\* A faulty variant: only the role is looked at.
shouldSkipByRole(msg) == msg.role \in {"toolResult", "tool", "system"}

shouldSkipMessage(msg) ==
    \/ msg.role \in {"toolResult", "tool", "system"}
    \/ LET content == extractText(msg.content)
       IN  \/ StrLen(content) < minMsgChars
           \/ includes(content, "HEARTBEAT_OK")
           \/ includes(content, "Read HEARTBEAT.md if it exists")
           \/ trim(content) = Str(<<R("NO_REPLY", 1)>>)

maxMsgChars == 2000

\* The runs of a name given as tokens.
RunsOf(tokens) == [i \in 1..Len(tokens) |-> R(tokens[i], 1)]

\* `[${label}] ${role}: ${truncated}`
formatMsg(msg, label) ==
    LET role == IF msg.role = "user" THEN "Human" ELSE "Assistant"
        content == extractText(msg.content)
        truncated == IF StrLen(content) > maxMsgChars
                     THEN Concat(slice0(content, maxMsgChars), Str(<<R(".", 3)>>))
                     ELSE content
        head == <<R("[", 1)>> \o RunsOf(label)
                  \o <<R("]", 1), R(" ", 1), R(role, 1), R(":", 1), R(" ", 1)>>
    IN  Concat(Str(head), truncated)

\* texts.join('\n\n')
RECURSIVE joinBlank(_)
joinBlank(texts) ==
    IF texts = <<>> THEN EmptyString
    ELSE IF Len(texts) = 1 THEN texts[1]
    ELSE texts[1] \o <<EmptyLine>> \o joinBlank(Tail(texts))

\* key.replace('agent:main:', '')
RECURSIVE labelOf(_)
labelOf(key) ==
    IF key = <<>> THEN <<>>
    ELSE IF key[1] = "agent:main:" THEN Tail(key)
    ELSE <<key[1]>> \o labelOf(Tail(key))

\* The catch around JSON.parse gives the default state for a corrupt file.
loadState(f) ==
    IF f.exists /\ ~f.corrupt THEN f.data ELSE [files |-> EmptyMap, lastRun |-> 0]

saveState(state, t) == File([state EXCEPT !.lastRun = t])

\* The sessions of the index whose log exists and was modified in the last 24 h.
getActiveSessionFiles(t) ==
    LET cutoff == t - recencyMs
        act == SelectSeq(SessionsIndex, LAMBDA e :
                   /\ logs[e.sessionId].exists
                   /\ ~(logs[e.sessionId].data.mtime < cutoff))
    IN  [i \in 1..Len(act) |->
            [key |-> act[i].key, sessionId |-> act[i].sessionId,
             mtime |-> logs[act[i].sessionId].data.mtime,
             label |-> labelOf(act[i].key)]]

MSGS_PER_CHUNK == 5

minChunkText == 30

\* The indices i (0-based) of the messages from lastOffset on that are kept.
newMessagesOf(messages, lastOffset) ==
    SelectSeq([k \in 1..Len(messages) |-> k - 1],
              LAMBDA i : i >= lastOffset /\ ~shouldSkipMessage(messages[i + 1]))

\* The loop over newMessages in steps of MSGS_PER_CHUNK, from index i on.
\* Every batch gives its text, its meta record and (for the properties) the
\* message indices it covers and the messages themselves.
RECURSIVE batchesOf(_, _, _, _, _)
batchesOf(messages, newMessages, i, sf, t) ==
    IF i >= Len(newMessages) THEN <<>>
    ELSE LET hi == IF i + MSGS_PER_CHUNK < Len(newMessages)
                   THEN i + MSGS_PER_CHUNK ELSE Len(newMessages)
             batch == SubSeq(newMessages, i + 1, hi)
             chunkText == joinBlank([k \in 1..Len(batch) |->
                              formatMsg(messages[batch[k] + 1], sf.label)])
             rest == batchesOf(messages, newMessages, i + MSGS_PER_CHUNK, sf, t)
         IN  IF StrLen(chunkText) < minChunkText THEN rest
             ELSE <<[text |-> chunkText,
                     meta |-> [source |-> <<"session:", sf.sessionId>>,
                               label |-> sf.label,
                               sessionId |-> sf.sessionId,
                               timestamp |-> t],
                     covers |-> Range(batch),
                     msgs |-> [k \in 1..Len(batch) |-> messages[batch[k] + 1]]]>>
                 \o rest

lastMtimeOf(state, sid) ==
    IF sid \in DOMAIN state.files THEN state.files[sid].mtime ELSE 0

\* A faulty variant: the tracked offset is ignored.
lastOffsetFromStart(state, sid) == 0

lastOffsetOf(state, sid) ==
    IF sid \in DOMAIN state.files THEN state.files[sid].offset ELSE 0

\* A faulty variant: the offset counts only the messages the filter keeps.
entryOfKept(sf, messages) ==
    [mtime |-> sf.mtime,
     offset |-> Len(SelectSeq(messages, LAMBDA m : ~shouldSkipMessage(m)))]

\* { mtime: sf.mtime, offset: messages.length }
entryOf(sf, messages) == [mtime |-> sf.mtime, offset |-> Len(messages)]

\* The loop over sessionFiles: acc holds state and the batches so far.
RECURSIVE sessionLoop(_, _, _)
sessionLoop(sfs, acc, t) ==
    IF sfs = <<>> THEN acc
    ELSE LET sf == sfs[1]
             lastMtime == lastMtimeOf(acc.state, sf.sessionId)
             lastOffset == lastOffsetOf(acc.state, sf.sessionId)
             messages == parseJSONL(logs[sf.sessionId].data.lines)
             newMessages == newMessagesOf(messages, lastOffset)
             entry == entryOf(sf, messages)
             state2 == [acc.state EXCEPT !.files = put(@, sf.sessionId, entry)]
         IN  IF sf.mtime <= lastMtime THEN sessionLoop(Tail(sfs), acc, t)
             ELSE sessionLoop(Tail(sfs),
                      [state |-> state2,
                       batches |-> acc.batches
                           \o batchesOf(messages, newMessages, 0, sf, t)],
                      t)

\* `session:${sessionId}:${timestamp}:${i}`, i the index among the run's batches
sessionDocId(meta, i) ==
    <<"session:", meta.sessionId, ":", ToString(meta.timestamp), ":", ToString(i)>>

\* toISOString().slice(0, 16) : the timestamp to the minute.
isoMinute(ts) == ToString(ts \div 60000)

sessionNewDocs(batches, embeddings, t) ==
    [i \in 1..Len(batches) |->
        [id |-> sessionDocId(batches[i].meta, i - 1),
         file |-> batches[i].meta.source,
         startLine |-> 0,
         endLine |-> 0,
         heading |-> <<R("Chat: ", 1)>> \o RunsOf(batches[i].meta.label)
                       \o <<R(" (", 1), R(isoMinute(batches[i].meta.timestamp), 1),
                            R(")", 1)>>,
         text |-> batches[i].text,
         vector |-> embeddings[i],
         indexedAt |-> t,
         meta |-> batches[i].meta]]

\* A faulty variant: the earlier chunks of the sessions of this run are replaced.
sessionSavedReplacing(docs, newDocs) ==
    SelectSeq(docs, LAMBDA d :
        \A k \in 1..Len(newDocs) : newDocs[k].file # d.file) \o newDocs

sessionSaved(docs, newDocs) == docs \o newDocs

SesIdle ==
    [pc |-> "idle", t0 |-> 0, proceeded |-> FALSE, prevEnd |-> -1,
     state |-> [files |-> EmptyMap, lastRun |-> 0], batches |-> <<>>,
     docs |-> <<>>, newDocs |-> <<>>, out |-> NoOut, wrote |-> {},
     embedCalls |-> 0, embedFailed |-> FALSE, sent |-> <<>>,
     pre |-> NoSnapshot]

\* main, up to getEmbeddings, or to the end when the run returns before it.
SessStart ==
    /\ ses.pc = "idle"
    /\ LET state == loadState(stateFile)
           run == [SesIdle EXCEPT !.t0 = now, !.pre = Snapshot,
                                  !.prevEnd = hist.lastEnd]
           sessionFiles == getActiveSessionFiles(now)
           acc == sessionLoop(sessionFiles, [state |-> state, batches |-> <<>>], now)
       IN  IF now - state.lastRun < cooldownMs
           THEN /\ ses' = [run EXCEPT !.pc = "done",
                                      !.out = Out("skipped", "too_soon")]
                /\ hist' = [hist EXCEPT !.steps = @ + 1]
                /\ UNCHANGED stateFile
           ELSE IF sessionFiles = <<>>
           THEN /\ stateFile' = saveState(state, now)
                /\ ses' = [run EXCEPT !.pc = "done", !.proceeded = TRUE,
                                      !.state = state, !.wrote = {"state"},
                                      !.out = Out("ok", "No active sessions")]
                /\ hist' = [hist EXCEPT !.lastEnd = now, !.steps = @ + 1]
           ELSE IF acc.batches = <<>>
           THEN /\ stateFile' = saveState(acc.state, now)
                /\ ses' = [run EXCEPT !.pc = "done", !.proceeded = TRUE,
                                      !.state = acc.state, !.wrote = {"state"},
                                      !.out = Out("ok", "No new messages")]
                /\ hist' = [hist EXCEPT !.lastEnd = now, !.steps = @ + 1]
           ELSE /\ ses' = [run EXCEPT !.pc = "embedding", !.proceeded = TRUE,
                                      !.state = acc.state, !.batches = acc.batches,
                                      !.sent = lengthsOf(truncatedTexts(acc.batches))]
                /\ hist' = [hist EXCEPT !.steps = @ + 1]
                /\ UNCHANGED stateFile
    /\ UNCHANGED <<sea, now, files, logs, indexFile, metaFile, idx, ing>>

\* getEmbeddings answered: the store is loaded, extended and written.
SessEmbedOk(embeddings) ==
    /\ ses.pc = "embedding"
    /\ LET docs == loadIndex(indexFile)
           newDocs == sessionNewDocs(ses.batches, embeddings, now)
           saved == sessionSaved(docs, newDocs)
       IN  /\ indexFile' = saveIndex(saved)
           /\ ses' = [ses EXCEPT !.pc = "saveState", !.docs = docs,
                                 !.newDocs = newDocs,
                                 !.embedCalls = batchCount(Len(ses.batches)),
                                 !.wrote = {"index"}]
           /\ hist' = [hist EXCEPT !.cover =
                  [id \in {saved[k].id : k \in 1..Len(saved)}
                          \cap ((DOMAIN hist.cover)
                                \cup {newDocs[k].id : k \in 1..Len(newDocs)}) |->
                      IF \E k \in 1..Len(newDocs) : newDocs[k].id = id
                      THEN LET k == CHOOSE k \in 1..Len(newDocs) : newDocs[k].id = id
                           IN  [sessionId |-> ses.batches[k].meta.sessionId,
                                covers |-> ses.batches[k].covers]
                      ELSE hist.cover[id]],
                  !.during = IF idx.pc = "embedding"
                             THEN @ \cup {newDocs[k].id : k \in 1..Len(newDocs)}
                             ELSE @]
    /\ UNCHANGED <<sea, now, files, logs, metaFile, stateFile, idx, ing>>

\* A faulty variant: the session tracker is saved although the embedding failed.
SessEmbedFailSavingState ==
    /\ ses.pc = "embedding"
    /\ stateFile' = saveState(ses.state, now)
    /\ ses' = [ses EXCEPT !.pc = "done", !.embedFailed = TRUE, !.embedCalls = 1,
                          !.wrote = {"state"},
                          !.out = Out("error", "embedding failed")]
    /\ hist' = [hist EXCEPT !.lastEnd = now]
    /\ UNCHANGED <<sea, now, files, logs, indexFile, metaFile, idx, ing>>

SessEmbedFail ==
    /\ ses.pc = "embedding"
    /\ ses' = [ses EXCEPT !.pc = "done", !.embedFailed = TRUE, !.embedCalls = 1,
                          !.out = Out("error", "embedding failed")]
    /\ hist' = [hist EXCEPT !.lastEnd = now]
    /\ UNCHANGED <<sea, now, files, logs, indexFile, metaFile, stateFile, idx, ing>>

\* saveState(state) at the end of main, and the result reported.
SessSaveState ==
    /\ ses.pc = "saveState"
    /\ stateFile' = saveState(ses.state, now)
    /\ ses' = [ses EXCEPT !.pc = "done", !.wrote = @ \cup {"state"},
                          !.out = Out("ok", "ingested")]
    /\ hist' = [hist EXCEPT !.lastEnd = now]
    /\ UNCHANGED <<sea, now, files, logs, indexFile, metaFile, idx, ing>>

SessExit ==
    /\ ses.pc = "done"
    /\ ses' = SesIdle
    /\ hist' = [hist EXCEPT !.crash =
                   IF ses.out.status = "ok" THEN @ \ {"ses"} ELSE @]
    /\ UNCHANGED <<sea, now, files, logs, indexFile, metaFile, stateFile, idx, ing>>

\* getEmbeddings answered and the store is corrupt: JSON.parse throws in
\* loadIndex, and main().catch reports the error and exits.
SessLoadThrows ==
    /\ ses.pc = "embedding"
    /\ indexFile.corrupt
    /\ ses' = [ses EXCEPT !.pc = "done",
                          !.embedCalls = batchCount(Len(ses.batches)),
                          !.out = Out("error", "Unexpected token")]
    /\ hist' = [hist EXCEPT !.lastEnd = now]
    /\ UNCHANGED <<sea, now, files, logs, indexFile, metaFile, stateFile, idx, ing>>

\* getEmbeddings answered, whatever the store holds.
SessAnswered(embeddings) ==
    IF indexFile.corrupt THEN SessLoadThrows ELSE SessEmbedOk(embeddings)

\* The process is killed after saveIndex and before saveState.
SessCrash ==
    /\ ses.pc = "saveState"
    /\ ses' = SesIdle
    /\ hist' = [hist EXCEPT !.crash = @ \cup {"ses"}]
    /\ UNCHANGED <<sea, now, files, logs, indexFile, metaFile, stateFile, idx, ing>>

\* ------------------------------------------------------------------ search.js

\* A score is a number of hundredths, or NaN.
ScoreScale == 100

NaN == [nan |-> TRUE, v |-> 0]

Num(x) == [nan |-> FALSE, v |-> x]

\* a >= m for a score a and a number m: false when a is NaN.
scoreGe(a, m) == ~a.nan /\ a.v >= m

\* Math.sqrt, for the sums of squares the vectors of the model give.
sqrt(n) == CHOOSE r \in 0..n : r * r = n

\* The three sums of the loop of cosineSimilarity, over i < a.length.
RECURSIVE sums(_, _, _)
sums(a, b, i) ==
    IF i = 0 THEN [dot |-> 0, na |-> 0, nb |-> 0]
    ELSE LET r == sums(a, b, i - 1)
         IN  [dot |-> r.dot + a[i] * b[i],
              na |-> r.na + a[i] * a[i],
              nb |-> r.nb + b[i] * b[i]]

\* b[i] is undefined past the end of b, and the sums are then NaN; so is
\* 0 / 0.  Components of b past the end of a are never read.
cosineSimilarity(a, b) ==
    IF Len(b) < Len(a) THEN NaN
    ELSE LET r == sums(a, b, Len(a))
         IN  IF r.na = 0 \/ r.nb = 0 THEN NaN
             ELSE Num((r.dot * ScoreScale) \div (sqrt(r.na) * sqrt(r.nb)))

previewChars == 300

scoredOf(docs, queryVec) ==
    [i \in 1..Len(docs) |->
        [file |-> docs[i].file,
         startLine |-> docs[i].startLine,
         endLine |-> docs[i].endLine,
         heading |-> docs[i].heading,
         score |-> cosineSimilarity(queryVec, docs[i].vector),
         preview |-> slice0(docs[i].text, previewChars)]]

\* A faulty variant: x goes before the entries of equal score.
RECURSIVE insertBeforeEqual(_, _)
insertBeforeEqual(sorted, x) ==
    IF sorted = <<>> THEN <<x>>
    ELSE IF sorted[1].score.v > x.score.v
         THEN <<sorted[1]>> \o insertBeforeEqual(Tail(sorted), x)
    ELSE <<x>> \o sorted

\* Insertion of x into a sequence sorted by descending score, behind the
\* entries of equal score.
RECURSIVE insertDesc(_, _)
insertDesc(sorted, x) ==
    IF sorted = <<>> THEN <<x>>
    ELSE IF sorted[1].score.v >= x.score.v THEN <<sorted[1]>> \o insertDesc(Tail(sorted), x)
    ELSE <<x>> \o sorted

\* scored.sort((a, b) => b.score - a.score), a stable sort.
RECURSIVE sortDesc(_)
sortDesc(scored) ==
    IF scored = <<>> THEN <<>>
    ELSE insertDesc(sortDesc(SubSeq(scored, 1, Len(scored) - 1)), scored[Len(scored)])

Perms(n) == {f \in [1..n -> 1..n] : \A i, j \in 1..n : f[i] = f[j] => i = j}

\* The orders sort may leave the entries in: the stable descending order, or,
\* when a score is NaN and the comparator is therefore not consistent, any.
sortedOrders(scored) ==
    IF \E i \in 1..Len(scored) : scored[i].score = NaN
    THEN {[i \in 1..Len(scored) |-> scored[f[i]]] : f \in Perms(Len(scored))}
    ELSE {sortDesc(scored)}

\* scored.filter(r => r.score >= minScore).slice(0, limit)
resultsOf(sorted, minScore, limit) ==
    LET kept == SelectSeq(sorted, LAMBDA r : scoreGe(r.score, minScore))
    IN  SubSeq(kept, 1, IF limit < Len(kept) THEN limit ELSE Len(kept))

NoResult == [results |-> <<>>, message |-> "", totalIndexed |-> -1]

SeaIdle ==
    [pc |-> "idle", limit |-> 0, minScore |-> 0, docs |-> <<>>, queryVec |-> <<>>,
     scored |-> <<>>, status |-> "", result |-> NoResult, embedCalls |-> 0,
     sent |-> <<>>, pre |-> NoSnapshot]

\* A faulty variant: the empty store is not told apart.
SearchStartNoSignal(query, limit, minScore) ==
    /\ sea.pc = "idle"
    /\ sea' = [SeaIdle EXCEPT !.pc = "embedding", !.limit = limit,
                              !.minScore = minScore,
                              !.docs = loadIndex(indexFile),
                              !.sent = lengthsOf(<<query>>), !.pre = Snapshot]
    /\ hist' = [hist EXCEPT !.steps = @ + 1]
    /\ UNCHANGED <<now, files, logs, indexFile, metaFile, stateFile, idx, ing, ses>>

\* main, up to getEmbedding, or to the end when the store is empty.
SearchStart(query, limit, minScore) ==
    /\ sea.pc = "idle"
    /\ LET docs == loadIndex(indexFile)
           run == [SeaIdle EXCEPT !.limit = limit, !.minScore = minScore,
                                  !.docs = docs, !.pre = Snapshot]
       IN  IF Len(docs) = 0
           THEN sea' = [run EXCEPT !.pc = "done", !.status = "ok",
                           !.result = [NoResult EXCEPT
                               !.message = "Index empty. Run index.js first."]]
           ELSE sea' = [run EXCEPT !.pc = "embedding",
                                   !.sent = lengthsOf(<<query>>)]
    /\ hist' = [hist EXCEPT !.steps = @ + 1]
    /\ UNCHANGED <<now, files, logs, indexFile, metaFile, stateFile, idx, ing, ses>>

\* getEmbedding answered: the scores, the order sort left, and the output.
SearchEmbedOk(queryVec) ==
    /\ sea.pc = "embedding"
    /\ LET scored == scoredOf(sea.docs, queryVec)
       IN  \E sorted \in sortedOrders(scored) :
               sea' = [sea EXCEPT
                   !.pc = "done", !.status = "ok", !.queryVec = queryVec,
                   !.scored = scored, !.embedCalls = 1,
                   !.result = [results |-> resultsOf(sorted, sea.minScore, sea.limit),
                               message |-> "",
                               totalIndexed |-> Len(sea.docs)]]
    /\ UNCHANGED <<now, files, logs, indexFile, metaFile, stateFile, idx, ing, ses, hist>>

SearchEmbedFail ==
    /\ sea.pc = "embedding"
    /\ sea' = [sea EXCEPT !.pc = "done", !.status = "error", !.embedCalls = 1]
    /\ UNCHANGED <<now, files, logs, indexFile, metaFile, stateFile, idx, ing, ses, hist>>

SearchExit ==
    /\ sea.pc = "done"
    /\ sea' = SeaIdle
    /\ UNCHANGED <<now, files, logs, indexFile, metaFile, stateFile, idx, ing, ses, hist>>

\* ------------------------------------------------------------------ environment

mUser == [role |-> "user", content |-> StringContent(Str(Body(40)))]

mAssistant == [role |-> "assistant", content |-> StringContent(Str(Body(60)))]

mTool == [role |-> "toolResult", content |-> StringContent(Str(Body(80)))]

mHeartbeat ==
    [role |-> "assistant",
     content |-> StringContent(Str(<<R("ok ", 1), R("HEARTBEAT_OK", 1)>>))]

mNoReply == [role |-> "assistant", content |-> StringContent(Str(<<R("NO_REPLY", 1)>>))]

mShort == [role |-> "user", content |-> StringContent(Str(Body(9)))]

mSystem == [role |-> "system", content |-> StringContent(Str(Body(70)))]

mToolCall ==
    [role |-> "tool",
     content |-> ArrayContent(<<[type |-> "text", text |-> Str(Body(45))]>>)]

\* What gets appended to a session log in one go.
LogAppends ==
    [s1 |-> { <<Envelope(mUser), BadLine, Envelope(mTool)>>,
              <<Envelope(mUser), Envelope(mAssistant), Flat(mUser),
                Envelope(mAssistant), Envelope(mUser), Envelope(mAssistant)>> },
     s2 |-> { <<Envelope(mHeartbeat), Flat(mUser), Envelope(mNoReply),
                Envelope(mShort), Envelope(mSystem), Envelope(mToolCall)>>,
              <<Envelope(mHeartbeat), Envelope(mSystem)>> }]

\* Five long messages: one batch of more than maxEmbedChars characters.
mLong == [role |-> "user", content |-> StringContent(Str(Body(2500)))]

LongAppend ==
    <<Envelope(mLong), Envelope(mLong), Envelope(mLong), Envelope(mLong),
      Envelope(mLong)>>

CoreAppends ==
    [s1 |-> { <<Envelope(mUser), BadLine, Envelope(mTool)>> },
     s2 |-> { <<Flat(mUser)>> }]

\* What a session log may be rewritten to.
LogRewrites == [s1 |-> { <<Envelope(mAssistant)>> }, s2 |-> {}]

Idle == idx.pc = "idle" /\ ing.pc = "idle" /\ ses.pc = "idle" /\ sea.pc = "idle"

\* Another change or run fits the bound.
Few(n) == hist.steps < n

\* Time passes between runs and while a run awaits the embedding service.
Tick(d) ==
    /\ Idle \/ "embedding" \in {idx.pc, ing.pc, ses.pc}
    /\ now + d <= MaxTime
    /\ now' = now + d
    /\ UNCHANGED <<sea, files, logs, indexFile, metaFile, stateFile, idx, ing, ses, hist>>

WriteFile(p, doc) ==
    /\ files[p] # File([mtime |-> now, doc |-> doc])
    /\ files' = [files EXCEPT ![p] = File([mtime |-> now, doc |-> doc])]
    /\ hist' = [hist EXCEPT !.changed = TRUE, !.steps = @ + 1,
                             !.crash = @ \ {"idx"}]
    /\ UNCHANGED <<sea, now, logs, indexFile, metaFile, stateFile, idx, ing, ses>>

DeleteFile(p) ==
    /\ files[p].exists
    /\ files' = [files EXCEPT ![p] = NoFile]
    /\ hist' = [hist EXCEPT !.changed = TRUE, !.steps = @ + 1,
                             !.crash = @ \ {"idx"}]
    /\ UNCHANGED <<sea, now, logs, indexFile, metaFile, stateFile, idx, ing, ses>>

linesOf(sid) == IF logs[sid].exists THEN logs[sid].data.lines ELSE <<>>

AppendLog(sid, lines) ==
    /\ Len(linesOf(sid)) + Len(lines) <= MaxLog
    /\ logs' = [logs EXCEPT ![sid] =
                   File([mtime |-> now, lines |-> linesOf(sid) \o lines])]
    /\ hist' = [hist EXCEPT !.steps = @ + 1, !.crash = @ \ {"ses"}]
    /\ UNCHANGED <<sea, now, files, indexFile, metaFile, stateFile, idx, ing, ses>>

RewriteLog(sid, lines) ==
    /\ logs[sid].exists
    /\ logs[sid].data.lines # lines
    /\ logs' = [logs EXCEPT ![sid] = File([mtime |-> now, lines |-> lines])]
    /\ hist' = [hist EXCEPT !.appendOnly[sid] = FALSE, !.steps = @ + 1,
                             !.crash = @ \ {"ses"}]
    /\ UNCHANGED <<sea, now, files, indexFile, metaFile, stateFile, idx, ing, ses>>

\* A persisted file is damaged: what it holds is no JSON text any more.
CorruptFile(name) ==
    /\ \/ /\ name = "index" /\ indexFile.exists /\ ~indexFile.corrupt
          /\ indexFile' = [indexFile EXCEPT !.corrupt = TRUE]
          /\ UNCHANGED <<metaFile, stateFile>>
       \/ /\ name = "meta" /\ metaFile.exists /\ ~metaFile.corrupt
          /\ metaFile' = [metaFile EXCEPT !.corrupt = TRUE]
          /\ UNCHANGED <<indexFile, stateFile>>
       \/ /\ name = "state" /\ stateFile.exists /\ ~stateFile.corrupt
          /\ stateFile' = [stateFile EXCEPT !.corrupt = TRUE]
          /\ UNCHANGED <<indexFile, metaFile>>
    /\ hist' = [hist EXCEPT !.steps = @ + 1]
    /\ UNCHANGED <<sea, now, files, logs, idx, ing, ses>>

\* ------------------------------------------------------------------ specification

Init ==
    /\ now = StartTime
    /\ files = [p \in Paths |-> NoFile]
    /\ logs = [s \in Sids |-> NoFile]
    /\ indexFile = NoFile
    /\ metaFile = NoFile
    /\ stateFile = NoFile
    /\ idx = IdxIdle
    /\ ing = IngIdle
    /\ ses = SesIdle
    /\ sea = SeaIdle
    /\ hist = [steps |-> 0, changed |-> FALSE, lastIdx |-> "none", lastEnd |-> -1,
               cover |-> EmptyMap, appendOnly |-> [s \in Sids |-> TRUE],
               during |-> {}, crash |-> {}]

\* In every specification the runs come one at a time and the files change
\* between runs.

\* The workspace indexer over a changing workspace.
NextIndex ==
    \/ \E d \in TickSteps : Tick(d)
    \/ \E p \in Paths : \E doc \in FileDocs[p] :
           Few(MaxSteps + 2) /\ Idle /\ WriteFile(p, doc)
    \/ \E p \in Paths : Few(MaxSteps + 2) /\ Idle /\ DeleteFile(p)
    \/ \E full \in BOOLEAN : Few(MaxSteps + 2) /\ Idle /\ IndexStart(full)
    \/ \E e \in Embeddings(Len(idx.allChunks)) : IndexEmbedOk(e)
    \/ IndexEmbedFail
    \/ IndexSaveMeta
    \/ IndexExit

SpecIndex == Init /\ [][NextIndex]_vars

\* The session ingester over changing session logs.
NextSess ==
    \/ \E d \in TickSteps : Tick(d)
    \/ \E sid \in Sids : \E lines \in LogAppends[sid] :
           Few(MaxSteps + 1) /\ Idle /\ AppendLog(sid, lines)
    \/ \E sid \in Sids : \E lines \in LogRewrites[sid] :
           Few(MaxSteps + 1) /\ Idle /\ RewriteLog(sid, lines)
    \/ Few(MaxSteps + 1) /\ Idle /\ SessStart
    \/ \E e \in Embeddings(Len(ses.batches)) : SessEmbedOk(e)
    \/ SessEmbedFail
    \/ SessSaveState
    \/ SessExit

SpecSess == Init /\ [][NextSess]_vars

\* The three programs over one store.
Next ==
    \/ \E d \in TickSteps : Tick(d)
    \/ \E p \in Paths : \E doc \in CoreDocs[p] :
           Few(MaxSteps) /\ Idle /\ WriteFile(p, doc)
    \/ \E p \in Paths : Few(MaxSteps) /\ Idle /\ DeleteFile(p)
    \/ \E sid \in Sids : \E lines \in CoreAppends[sid] :
           Few(MaxSteps) /\ Idle /\ AppendLog(sid, lines)
    \/ \E sid \in Sids : \E lines \in LogRewrites[sid] :
           Few(MaxSteps) /\ Idle /\ RewriteLog(sid, lines)
    \/ \E full \in BOOLEAN : Few(MaxSteps) /\ Idle /\ IndexStart(full)
    \/ \E e \in Embeddings(Len(idx.allChunks)) : IndexEmbedOk(e)
    \/ IndexEmbedFail
    \/ IndexSaveMeta
    \/ IndexExit
    \/ \E source \in Sources : \E doc \in IngestDocs :
           Few(MaxSteps) /\ Idle /\ IngestStart(source, Docs[doc])
    \/ \E e \in Embeddings(Len(ing.chunks)) : IngestEmbedOk(e)
    \/ IngestEmbedFail
    \/ IngestExit
    \/ Few(MaxSteps) /\ Idle /\ SessStart
    \/ \E e \in Embeddings(Len(ses.batches)) : SessEmbedOk(e)
    \/ SessEmbedFail
    \/ SessSaveState
    \/ SessExit

Spec == Init /\ [][Next]_vars

\* ingest.js over a range of documents: the chunker at work.
NextChunk ==
    \/ \E source \in Sources : \E doc \in ChunkDocs :
           Few(MaxSteps) /\ Idle /\ IngestStart(source, Docs[doc])
    \/ \E e \in Embeddings(Len(ing.chunks)) : IngestEmbedOk(e)
    \/ IngestEmbedFail
    \/ IngestExit

SpecChunk == Init /\ [][NextChunk]_vars

\* index.js and ingest-sessions.js as two processes that may overlap.
NextRace ==
    \/ \E d \in TickSteps : Tick(d)
    \/ \E p \in Paths : \E doc \in CoreDocs[p] :
           Few(MaxSteps + 1) /\ Idle /\ WriteFile(p, doc)
    \/ \E sid \in Sids : \E lines \in CoreAppends[sid] :
           Few(MaxSteps + 1) /\ Idle /\ AppendLog(sid, lines)
    \/ Few(MaxSteps + 1) /\ IndexStart(FALSE)
    \/ \E e \in Embeddings(Len(idx.allChunks)) : IndexEmbedOk(e)
    \/ IndexEmbedFail
    \/ IndexSaveMeta
    \/ IndexExit
    \/ Few(MaxSteps + 1) /\ SessStart
    \/ \E e \in Embeddings(Len(ses.batches)) : SessEmbedOk(e)
    \/ SessEmbedFail
    \/ SessSaveState
    \/ SessExit

SpecRace == Init /\ [][NextRace]_vars

\* index.js and ingest-sessions.js, one run at a time, where a run may be
\* killed between its two writes.
NextCrash ==
    \/ \E d \in TickSteps : Tick(d)
    \/ \E p \in Paths : \E doc \in CoreDocs[p] :
           Few(MaxSteps + 1) /\ Idle /\ WriteFile(p, doc)
    \/ \E sid \in Sids : \E lines \in CoreAppends[sid] :
           Few(MaxSteps + 1) /\ Idle /\ AppendLog(sid, lines)
    \/ \E full \in BOOLEAN : Few(MaxSteps + 1) /\ Idle /\ IndexStart(full)
    \/ \E e \in Embeddings(Len(idx.allChunks)) : IndexEmbedOk(e)
    \/ IndexEmbedFail
    \/ IndexSaveMeta
    \/ IndexCrash
    \/ IndexExit
    \/ Few(MaxSteps + 1) /\ Idle /\ SessStart
    \/ \E e \in Embeddings(Len(ses.batches)) : SessEmbedOk(e)
    \/ SessEmbedFail
    \/ SessSaveState
    \/ SessCrash
    \/ SessExit

SpecCrash == Init /\ [][NextCrash]_vars

\* ingest-sessions.js invoked again and again once the cooldown has elapsed,
\* with an embedding service that answers, beside runs of index.js over a
\* workspace that holds a file, and appends to the session logs.

\* The workspace holds a.md; nothing has run yet.
InitCron ==
    /\ now = StartTime
    /\ files = [p \in Paths |->
                   IF p = PathSeq[1]
                   THEN File([mtime |-> StartTime, doc |-> "two"])
                   ELSE NoFile]
    /\ logs = [s \in Sids |-> NoFile]
    /\ indexFile = NoFile
    /\ metaFile = NoFile
    /\ stateFile = NoFile
    /\ idx = IdxIdle
    /\ ing = IngIdle
    /\ ses = SesIdle
    /\ sea = SeaIdle
    /\ hist = [steps |-> 0, changed |-> FALSE, lastIdx |-> "none", lastEnd |-> -1,
               cover |-> EmptyMap, appendOnly |-> [s \in Sids |-> TRUE],
               during |-> {}, crash |-> {}]

\* An invocation of ingest-sessions.js when the cooldown has elapsed.
SessStartDue ==
    /\ Idle
    /\ now - loadState(stateFile).lastRun >= cooldownMs
    /\ SessStart

\* An append that moves the log's modification time on, with time left for
\* a later invocation.
AppendLater(sid, lines) ==
    /\ Idle
    /\ now < MaxTime
    /\ IF logs[sid].exists THEN logs[sid].data.mtime < now ELSE TRUE
    /\ AppendLog(sid, lines)

NextCron ==
    \/ \E d \in TickSteps : Tick(d)
    \/ \E sid \in Sids : \E lines \in CoreAppends[sid] :
           Few(MaxSteps) /\ AppendLater(sid, lines)
    \/ Few(MaxSteps) /\ Idle /\ IndexStart(FALSE)
    \/ \E e \in Embeddings(Len(idx.allChunks)) : IndexEmbedOk(e)
    \/ IndexSaveMeta
    \/ IndexExit
    \/ SessStartDue
    \/ \E e \in Embeddings(Len(ses.batches)) : SessEmbedOk(e)
    \/ SessSaveState
    \/ SessExit

SpecCron == InitCron /\ [][NextCron]_vars

\* index.js and ingest-sessions.js with an embedding service that answers,
\* over persisted files that may get damaged between the runs.
NextCorrupt ==
    \/ \E d \in TickSteps : Tick(d)
    \/ \E p \in Paths : \E doc \in CoreDocs[p] :
           Few(MaxSteps + 2) /\ Idle /\ WriteFile(p, doc)
    \/ \E sid \in Sids : \E lines \in CoreAppends[sid] :
           Few(MaxSteps + 2) /\ Idle /\ AppendLog(sid, lines)
    \/ \E name \in {"index", "meta", "state"} :
           Few(MaxSteps + 2) /\ Idle /\ CorruptFile(name)
    \/ \E full \in BOOLEAN : Few(MaxSteps + 2) /\ Idle /\ IndexRun(full)
    \/ \E e \in Embeddings(Len(idx.allChunks)) : IndexEmbedOk(e)
    \/ IndexSaveMeta
    \/ IndexExit
    \/ Few(MaxSteps + 2) /\ Idle /\ SessStart
    \/ \E e \in Embeddings(Len(ses.batches)) : SessAnswered(e)
    \/ SessSaveState
    \/ SessExit

SpecCorrupt == Init /\ [][NextCorrupt]_vars

\* search.js over the stores it may find on disk.

\* The vectors of stored chunks: of the dimension of the query vectors, or
\* shorter, or longer.
StoredVectors == { <<1, 0>>, <<0, 1>>, <<3, 4>>, <<-1, 0>>, <<1>>, <<3, 4, 12>> }

\* What the embedding service answers for a query.
QueryVectors == { <<1, 0>>, <<3, 4>> }

MaxStore == 3

storedDoc(i, v) ==
    [id |-> <<"a.md", ":", ToString(i)>>, file |-> <<"a.md">>, startLine |-> i,
     endLine |-> i, heading |-> EmptyLine, text |-> Str(Body(400)),
     vector |-> v, indexedAt |-> StartTime]

Stores ==
    UNION {{[i \in 1..n |-> storedDoc(i, vs[i])] : vs \in [1..n -> StoredVectors]}
           : n \in 0..MaxStore}

\* --limit and --min-score (in hundredths); 10 and 30 are the defaults.
Limits == {0, 1, 2, 10}

MinScores == {0, 30, 80, 101}

\* The queries: a short one, and one longer than maxEmbedChars.
CoreQuery == Str(Body(20))

Queries == {CoreQuery, Str(Body(9000))}

InitSearch ==
    /\ now = StartTime
    /\ files = [p \in Paths |-> NoFile]
    /\ logs = [s \in Sids |-> NoFile]
    /\ indexFile \in {NoFile} \cup {File(docs) : docs \in Stores}
    /\ metaFile = NoFile
    /\ stateFile = NoFile
    /\ idx = IdxIdle
    /\ ing = IngIdle
    /\ ses = SesIdle
    /\ sea = SeaIdle
    /\ hist = [steps |-> 0, changed |-> FALSE, lastIdx |-> "none", lastEnd |-> -1,
               cover |-> EmptyMap, appendOnly |-> [s \in Sids |-> TRUE],
               during |-> {}, crash |-> {}]

NextSearch ==
    \/ \E limit \in Limits : \E minScore \in MinScores :
           Few(1) /\ SearchStart(CoreQuery, limit, minScore)
    \/ \E q \in QueryVectors : SearchEmbedOk(q)
    \/ SearchEmbedFail
    \/ SearchExit

SpecSearch == InitSearch /\ [][NextSearch]_vars

\* The four programs, one run at a time, over long inputs: what they hand
\* to the embedding service.
NextSubmit ==
    \/ \E doc \in {"two", "giant"} :
           Few(MaxSteps) /\ Idle /\ WriteFile(PathSeq[1], doc)
    \/ Few(MaxSteps) /\ Idle /\ AppendLog("s2", LongAppend)
    \/ Few(MaxSteps) /\ Idle /\ IndexStart(FALSE)
    \/ \E e \in Embeddings(Len(idx.allChunks)) : IndexEmbedOk(e)
    \/ IndexSaveMeta
    \/ IndexExit
    \/ \E source \in Sources : \E doc \in {"two", "giant"} :
           Few(MaxSteps) /\ Idle /\ IngestStart(source, Docs[doc])
    \/ \E e \in Embeddings(Len(ing.chunks)) : IngestEmbedOk(e)
    \/ IngestExit
    \/ Few(MaxSteps) /\ Idle /\ SessStart
    \/ \E e \in Embeddings(Len(ses.batches)) : SessEmbedOk(e)
    \/ SessSaveState
    \/ SessExit
    \/ \E query \in Queries :
           Few(MaxSteps) /\ Idle /\ SearchStart(query, 10, 30)
    \/ \E q \in QueryVectors : SearchEmbedOk(q)
    \/ SearchExit

SpecSubmit == Init /\ [][NextSubmit]_vars

\* ------------------------------------------------------------------ properties

docsOf(f) == loadIndex(f)

\* The chunks of a store whose source is the given one, in store order.
chunksOf(docs, file) == SelectSeq(docs, LAMBDA d : d.file = file)

\* A run of index.js has ended and reported success.
IdxOk == idx.pc = "done" /\ idx.out.status = "ok"

\* C1 (incremental correctness): when an incremental run that found exactly
\* one changed file F has completed, the store's chunks of F are exactly the
\* chunks this run produced, and the chunks of every other file of the
\* crawl are what they were before the run, field by field and in order.
C1_IncrementalCorrectness ==
    (IdxOk /\ ~idx.full /\ Len(idx.toIndex) = 1) =>
        LET F == idx.toIndex[1].relPath
        IN  /\ chunksOf(docsOf(indexFile), F) = idx.newDocs
            /\ \A G \in Range(idx.files) \ {F} :
                   chunksOf(docsOf(indexFile), G) = chunksOf(docsOf(idx.pre.index), G)

\* C1's case: F was tracked with an older time and had chunks, which the
\* run replaced by new ones, and another file keeps its chunks.
C1_Witness ==
    /\ IdxOk /\ ~idx.full /\ Len(idx.toIndex) = 1
    /\ LET F == idx.toIndex[1].relPath
       IN  /\ F \in DOMAIN idx.fileMeta
           /\ idx.fileMeta[F].mtime < idx.toIndex[1].mtime
           /\ idx.newDocs # <<>>
           /\ chunksOf(docsOf(idx.pre.index), F) # <<>>
           /\ chunksOf(docsOf(idx.pre.index), F) # idx.newDocs
           /\ \E G \in Range(idx.files) \ {F} :
                  chunksOf(docsOf(indexFile), G) # <<>>

\* The tracker a file holds.
trackerOf(f) == loadFileMeta(f)

\* The sources that occur in a store.
sourcesOf(docs) == {docs[k].file : k \in 1..Len(docs)}

\* C2 (idempotent re-index, no-op short-circuit): an incremental run that
\* follows a completed incremental run, with no file created, deleted or
\* modified in between, reports that no file changed, calls the embedding
\* service zero times, writes neither the store nor the tracker, and leaves
\* the persisted chunk set as the first run left it.
C2_IdempotentReindex ==
    (idx.pc = "done" /\ ~idx.full /\ idx.repeat) =>
        /\ idx.out = Out("ok", "No files changed")
        /\ idx.embedCalls = 0
        /\ idx.wrote = {}
        /\ indexFile = idx.pre.index
        /\ metaFile = idx.pre.meta

\* C3 (eviction of vanished files): when a run has completed, a file that was
\* indexed before the run (tracked, or with chunks in the store) and is not
\* in the run's crawl has no tracker entry and no chunk in the store.
C3_EvictionOfVanished ==
    IdxOk =>
        \A P \in ((DOMAIN trackerOf(idx.pre.meta))
                  \cup sourcesOf(docsOf(idx.pre.index))) \ Range(idx.files) :
            /\ P \notin DOMAIN trackerOf(metaFile)
            /\ chunksOf(docsOf(indexFile), P) = <<>>

\* C9 (full rebuild): when a run in full-rebuild mode has completed, the
\* store holds exactly the chunks this run produced, all of files of this
\* run's crawl, and the tracker holds exactly the crawled files, each with
\* its current modification time.
C9_FullRebuild ==
    (IdxOk /\ idx.full) =>
        /\ docsOf(indexFile) = idx.newDocs
        /\ sourcesOf(docsOf(indexFile)) \subseteq Range(idx.files)
        /\ DOMAIN trackerOf(metaFile) = Range(idx.files)
        /\ \A p \in Range(idx.files) :
               trackerOf(metaFile)[p].mtime = files[p].data.mtime

\* The session tracker a file holds.
stateOf(f) == loadState(f)

\* A run of ingest-sessions.js has ended after ingesting new chunks.
SesIngested == ses.pc = "done" /\ ses.out = Out("ok", "ingested")

\* C5 (session ingestion is purely additive): when a run has completed, the
\* store is the store the run loaded followed by the run's new chunks, the
\* loaded store being the one persisted before the run; a run that completes
\* without new chunks leaves the store file as it was.
C5_SessionAdditive ==
    /\ SesIngested =>
           /\ docsOf(indexFile) = ses.docs \o ses.newDocs
           /\ ses.docs = docsOf(ses.pre.index)
    /\ (ses.pc = "done" /\ ses.out.status = "ok" /\ ~SesIngested) =>
           indexFile = ses.pre.index

\* C5's case: the run added chunks of a session that already had chunks in
\* the store.
C5_Witness ==
    /\ SesIngested
    /\ ses.newDocs # <<>>
    /\ \E k \in 1..Len(ses.newDocs) :
           chunksOf(ses.docs, ses.newDocs[k].file) # <<>>

\* C6 (no re-emission): for a session log that has only been appended to,
\* no message is covered by two chunks of the store, and no batch of a run
\* covers a message whose index is below the offset that was persisted when
\* the run started.
C6_NoReemission ==
    /\ \A i, j \in DOMAIN hist.cover :
           (/\ i # j
            /\ hist.cover[i].sessionId = hist.cover[j].sessionId
            /\ hist.appendOnly[hist.cover[i].sessionId])
           => hist.cover[i].covers \cap hist.cover[j].covers = {}
    /\ \A k \in 1..Len(ses.batches) :
           LET sid == ses.batches[k].meta.sessionId
               tracked == stateOf(ses.pre.state).files
           IN  (hist.appendOnly[sid] /\ sid \in DOMAIN tracked)
               => \A m \in ses.batches[k].covers : m >= tracked[sid].offset

\* C6's case: an appended-to session has chunks of two runs in the store,
\* the later run having started from a positive offset.
C6_Witness ==
    /\ SesIngested
    /\ \E k \in 1..Len(ses.batches) :
           LET sid == ses.batches[k].meta.sessionId
               tracked == stateOf(ses.pre.state).files
           IN  /\ hist.appendOnly[sid]
               /\ sid \in DOMAIN tracked
               /\ tracked[sid].offset > 0
               /\ \E i \in DOMAIN hist.cover :
                      /\ hist.cover[i].sessionId = sid
                      /\ i # ses.newDocs[k].id
                      /\ hist.cover[i].covers # {}

\* C7 (offset monotonicity): the offset a run leaves in the session tracker
\* for a session is never below the offset the tracker held for it before
\* the run, whatever happened to the log in between.
C7_OffsetMonotone ==
    ses.pc # "idle" =>
        \A sid \in DOMAIN stateOf(ses.pre.state).files :
            /\ sid \in DOMAIN stateOf(stateFile).files
            /\ stateOf(stateFile).files[sid].offset
                   >= stateOf(ses.pre.state).files[sid].offset

\* C8 (cooldown): a run that passes the cooldown check starts at least
\* cooldownMs after the end of the previous run that passed it, and a
\* skipped run calls the embedding service zero times and writes nothing.
C8_Cooldown ==
    /\ (ses.pc # "idle" /\ ses.proceeded /\ ses.prevEnd # -1) =>
           ses.t0 - ses.prevEnd >= cooldownMs
    /\ (ses.pc = "done" /\ ses.out.status = "skipped") =>
           /\ ses.embedCalls = 0
           /\ ses.wrote = {}
           /\ indexFile = ses.pre.index
           /\ stateFile = ses.pre.state

\* C4 (failure atomicity): a run of index.js, ingest.js or ingest-sessions.js
\* whose embedding call failed has ended in the error state, has written no
\* file, and the store and the trackers are what they were before the run.
C4_FailureAtomicity ==
    /\ idx.embedFailed =>
           /\ idx.pc = "done" /\ idx.out.status = "error"
           /\ idx.wrote = {}
           /\ indexFile = idx.pre.index /\ metaFile = idx.pre.meta
    /\ ing.embedFailed =>
           /\ ing.pc = "done" /\ ing.out.status = "error"
           /\ ing.wrote = {}
           /\ indexFile = ing.pre.index /\ metaFile = ing.pre.meta
    /\ ses.embedFailed =>
           /\ ses.pc = "done" /\ ses.out.status = "error"
           /\ ses.wrote = {}
           /\ indexFile = ses.pre.index /\ stateFile = ses.pre.state

\* C4's case: the embedding call of a session run with batches to embed
\* failed while the store held chunks of earlier runs.
C4_Witness ==
    /\ ses.embedFailed
    /\ ses.batches # <<>>
    /\ docsOf(ses.pre.index) # <<>>

\* C10 (chunk id uniqueness): no two records of the persisted store have the
\* same id.
C10_UniqueIds ==
    \A i, j \in 1..Len(docsOf(indexFile)) :
        docsOf(indexFile)[i].id = docsOf(indexFile)[j].id => i = j

\* C10's case: the store holds several chunks of one workspace file together
\* with several chunks that ingest.js added.
C10_Witness ==
    LET docs == docsOf(indexFile)
    IN  \E i, j, k, l \in 1..Len(docs) :
            /\ i # j /\ docs[i].file = docs[j].file
            /\ docs[i].file \in Paths
            /\ docs[i].id = indexDocId(docs[i])
            /\ docs[j].id = indexDocId(docs[j])
            /\ ing.pc = "done"
            /\ docs[k].id = ingestDocId(ing.source, 0)
            /\ docs[l].id = ingestDocId(ing.source, 1)

\* A message the ingester is to leave out: a tool, tool-result or system
\* message, or one whose extracted text is "NO_REPLY", holds "HEARTBEAT_OK"
\* or has fewer than minMsgChars characters.
noise(msg) ==
    \/ msg.role \in {"tool", "toolResult", "system"}
    \/ extractText(msg.content) = Str(<<R("NO_REPLY", 1)>>)
    \/ includes(extractText(msg.content), "HEARTBEAT_OK")
    \/ StrLen(extractText(msg.content)) < 10

\* C11 (noise filtering): the chunks a session run appends to the store are
\* the texts of its batches, and no batch holds a noise message; in
\* particular no appended text holds "HEARTBEAT_OK".
C11_NoiseFiltered ==
    (ses.pc \in {"saveState", "done"} /\ ses.newDocs # <<>>) =>
        /\ Len(ses.newDocs) = Len(ses.batches)
        /\ \A k \in 1..Len(ses.newDocs) :
               /\ ses.newDocs[k].text = ses.batches[k].text
               /\ ses.newDocs[k] \in Range(docsOf(indexFile))
               /\ ~includes(ses.newDocs[k].text, "HEARTBEAT_OK")
               /\ \A m \in 1..Len(ses.batches[k].msgs) :
                      ~noise(ses.batches[k].msgs[m])

\* C11's case: a run appended a chunk of a session whose log holds noise
\* messages of every kind beside a message that is kept.
C11_Witness ==
    /\ SesIngested
    /\ \E k \in 1..Len(ses.newDocs) :
           LET msgs == parseJSONL(linesOf(ses.batches[k].meta.sessionId))
           IN  /\ mHeartbeat \in Range(msgs)
               /\ mNoReply \in Range(msgs)
               /\ mShort \in Range(msgs)
               /\ mSystem \in Range(msgs)
               /\ mToolCall \in Range(msgs)
               /\ ses.batches[k].msgs # <<>>

\* The heading a chunk that starts at line s of a document is expected to
\* carry: the text of the nearest heading line at or before line s, empty
\* when there is none.
headingAt(text, s) ==
    LET hs == {i \in 1..s : i <= Len(text) /\ isHeading(text[i])}
    IN  IF hs = {} THEN EmptyLine
        ELSE headingText(text[CHOOSE i \in hs : \A j \in hs : j <= i])

\* C12 (heading attribution): every chunk of a document carries the text of
\* the nearest heading line at or before its first line, and the empty
\* heading only when no heading line is there.
C12_HeadingAttribution ==
    ing.pc # "idle" =>
        \A k \in 1..Len(ing.chunks) :
            ing.chunks[k].heading = headingAt(ing.text, ing.chunks[k].startLine)

\* C13 (chunk size bound): every chunk of a document has at most maxChars
\* characters of text, unless its text is one paragraph.
C13_ChunkSizeBound ==
    ing.pc # "idle" =>
        \A k \in 1..Len(ing.chunks) :
            \/ StrLen(ing.chunks[k].text) <= 3000
            \/ Len(paragraphs(ing.chunks[k].text)) = 1

\* A search has ended with its scores computed.
SeaScored == sea.pc = "done" /\ sea.status = "ok" /\ sea.docs # <<>>

\* The store positions whose score is at least the minimum.
keptAt == {i \in 1..Len(sea.scored) : scoreGe(sea.scored[i].score, sea.minScore)}

\* The number of kept entries that go before the one at position i: those of
\* higher score, and those of equal score earlier in the store.
rankOf(i) ==
    Cardinality({j \in keptAt :
        \/ sea.scored[j].score.v > sea.scored[i].score.v
        \/ sea.scored[j].score.v = sea.scored[i].score.v /\ j < i})

\* C14 (search result selection): when no score is NaN, the result is the
\* entries of score >= minScore, by descending score, equal scores in store
\* order, cut to the first limit entries.
C14_ResultSelection ==
    (SeaScored /\ \A i \in 1..Len(sea.scored) : ~sea.scored[i].score.nan) =>
        LET res == sea.result.results
        IN  /\ Len(res) = IF sea.limit < Cardinality(keptAt)
                          THEN sea.limit ELSE Cardinality(keptAt)
            /\ \A k \in 1..Len(res) :
                   \E i \in keptAt : rankOf(i) = k - 1 /\ res[k] = sea.scored[i]

\* C14's case: two kept entries of equal score, an entry below the minimum
\* that stands before them in the store, and more kept entries than the
\* limit allows.
C14_Witness ==
    /\ SeaScored
    /\ \A i \in 1..Len(sea.scored) : ~sea.scored[i].score.nan
    /\ \E i, j \in keptAt : i < j /\ sea.scored[i].score = sea.scored[j].score
    /\ \E i \in 1..Len(sea.scored) : i \notin keptAt /\ \E j \in keptAt : i < j
    /\ sea.limit > 0
    /\ Len(sea.result.results) = sea.limit
    /\ sea.limit < Cardinality(keptAt)

\* Every score of the search is below the minimum.
AllBelow == SeaScored /\ keptAt = {}

\* C15 (empty-store signal), as stated: a search over an empty store gives
\* no result, a message and no embedding call; a search whose scores are all
\* below the minimum gives no result and a message other than that one.
C15_EmptyStoreSignal ==
    /\ (sea.pc = "done" /\ sea.docs = <<>>) =>
           /\ sea.result.results = <<>>
           /\ sea.result.message # ""
           /\ sea.embedCalls = 0
    /\ AllBelow =>
           /\ sea.result.results = <<>>
           /\ sea.result.message # ""
           /\ sea.result.message # "Index empty. Run index.js first."

\* C15, amended: a search over an empty store gives no result, the message
\* "Index empty. Run index.js first." and no embedding call; a search whose
\* scores are all below the minimum gives no result, no message, and the
\* number of stored chunks, which is positive.
C15_EmptyStoreSignalAmended ==
    /\ (sea.pc = "done" /\ sea.docs = <<>>) =>
           /\ sea.result.results = <<>>
           /\ sea.result.message = "Index empty. Run index.js first."
           /\ sea.result.totalIndexed = NoResult.totalIndexed
           /\ sea.embedCalls = 0
    /\ AllBelow =>
           /\ sea.result.results = <<>>
           /\ sea.result.message = ""
           /\ sea.result.totalIndexed = Len(sea.docs)
           /\ sea.result.totalIndexed > 0

\* C15's case: a store of several chunks, every score below the minimum.
C15_Witness ==
    /\ AllBelow
    /\ Len(sea.docs) > 1
    /\ \E i \in 1..Len(sea.scored) : scoreGe(sea.scored[i].score, 80)

\* C16 (store dimensionality check): a search that has computed scores has
\* computed none between a query vector and a stored vector of another
\* length.
C16_DimensionCheck ==
    SeaScored =>
        \A i \in 1..Len(sea.docs) : Len(sea.docs[i].vector) = Len(sea.queryVec)

\* The chunks of a store whose source is not the given one, in store order.
othersOf(docs, file) == SelectSeq(docs, LAMBDA d : d.file # file)

\* C17 (ad-hoc ingest replaces by source): when an ingest of source label S
\* has completed, the store's chunks of source ingest:S are exactly the
\* chunks this ingest produced, and the chunks of the other sources are what
\* they were before, in the same order.
C17_IngestReplacesBySource ==
    (ing.pc = "done" /\ ing.out.status = "ok") =>
        /\ chunksOf(docsOf(indexFile), ingestFile(ing.source)) = ing.newDocs
        /\ othersOf(docsOf(indexFile), ingestFile(ing.source))
               = othersOf(docsOf(ing.pre.index), ingestFile(ing.source))

\* C18 (lost update between processes): once an indexer run has written the
\* store, no chunk that a session run saved between that indexer run's load
\* of the store and its write is in the store.
C18_LostUpdate ==
    (idx.pc \in {"saveMeta", "done"} /\ "index" \in idx.wrote) =>
        \A k \in 1..Len(docsOf(indexFile)) :
            docsOf(indexFile)[k].id \notin hist.during

\* C18's case: a session run saved chunks while the indexer run awaited its
\* embeddings and has completed; the indexer run then wrote the store.
C18_Witness ==
    /\ idx.pc = "saveMeta"
    /\ hist.during # {}
    /\ ses.out = Out("ok", "ingested")
    /\ hist.during = {ses.newDocs[k].id : k \in 1..Len(ses.newDocs)}

\* A chunk of a session or of an ad-hoc ingest: its source starts with
\* "session:" or "ingest:" and is no file the indexer tracks or has crawled.
foreignTo(d, tracked, crawl) ==
    /\ d.file[1] \in {"session:", "ingest:"}
    /\ d.file \notin tracked
    /\ d.file \notin crawl

\* C19 (the indexer leaves foreign chunks alone): when an indexer run has
\* completed, every chunk of a session or of an ad-hoc ingest that was in the
\* store before the run is in the store, unchanged.
C19_ForeignChunksKept ==
    IdxOk =>
        \A k \in 1..Len(docsOf(idx.pre.index)) :
            LET d == docsOf(idx.pre.index)[k]
            IN  foreignTo(d, DOMAIN trackerOf(idx.pre.meta), Range(idx.files))
                => d \in Range(docsOf(indexFile))

\* The number of messages in a log: its lines that are JSON and hold an
\* enveloped message, or a flat record with a role and a content.
parsedCount(lines) ==
    Cardinality({i \in 1..Len(lines) :
        /\ lines[i].json
        /\ \/ lines[i].type = "message" /\ lines[i].message # NoMsg
           \/ /\ lines[i].type # "message" \/ lines[i].message = NoMsg
              /\ lines[i].flat.role # ""
              /\ truthy(lines[i].flat.content)})

\* The sessions a run at time t takes up: listed, with a log modified in the
\* last 24 hours and after the tracked time.
advanced(sid, tracked, t) ==
    /\ logs[sid].exists
    /\ logs[sid].data.mtime >= t - recencyMs
    /\ logs[sid].data.mtime >
           (IF sid \in DOMAIN tracked THEN tracked[sid].mtime ELSE 0)

\* C20 (offset equals parsed count): when a run has completed, the tracker
\* entry of every session the run took up holds the log's modification time
\* and the number of messages parsed from the log; the entry of every other
\* session is what it was.
C20_OffsetIsParsedCount ==
    (ses.pc = "done" /\ ses.out.status = "ok") =>
        LET before == stateOf(ses.pre.state).files
            after == stateOf(stateFile).files
        IN  \A sid \in Sids :
                IF advanced(sid, before, ses.t0)
                THEN /\ sid \in DOMAIN after
                     /\ after[sid] = [mtime |-> logs[sid].data.mtime,
                                      offset |-> parsedCount(linesOf(sid))]
                ELSE /\ sid \in DOMAIN after <=> sid \in DOMAIN before
                     /\ sid \in DOMAIN before => after[sid] = before[sid]

\* C20's case: of the new messages of a session the run took up none passed
\* the filter and the tracked offset moved on, while another session was not
\* taken up.
C20_Witness ==
    /\ ses.pc = "done" /\ ses.out.status = "ok"
    /\ \E sid \in Sids :
           /\ advanced(sid, stateOf(ses.pre.state).files, ses.t0)
           /\ parsedCount(linesOf(sid)) > 0
           /\ \A k \in 1..Len(ses.batches) : ses.batches[k].meta.sessionId # sid
           /\ sid \in DOMAIN stateOf(ses.pre.state).files
                  => stateOf(ses.pre.state).files[sid].offset
                         < parsedCount(linesOf(sid))
    /\ \E sid \in Sids : ~advanced(sid, stateOf(ses.pre.state).files, ses.t0)

\* C21 (tracker persisted on every run): whenever a run of ingest-sessions.js
\* that passed the cooldown check has ended, also one that found no active
\* session or no new message, the run wrote the session tracker and the
\* persisted lastRun is the time the run ended.
C21_TrackerEveryRun ==
    (ses.pc = "done" /\ ses.proceeded) =>
        /\ "state" \in ses.wrote
        /\ stateFile.exists
        /\ stateOf(stateFile).lastRun = hist.lastEnd

\* C22 (crash between the two writes): when a run has completed that follows,
\* on unchanged inputs, a run of the same program killed after it wrote the
\* store and before it wrote its tracker, no two records of the store are
\* chunks of the same place of a workspace file, and no two records cover
\* the same message of a session.
C22_CrashBetweenWrites ==
    LET docs == docsOf(indexFile)
    IN  /\ (IdxOk /\ "idx" \in hist.crash) =>
               \A k, l \in 1..Len(docs) :
                   (/\ k # l
                    /\ docs[k].file \in Range(idx.files)
                    /\ docs[k].file = docs[l].file)
                   => docs[k].startLine # docs[l].startLine
        /\ (ses.pc = "done" /\ ses.out.status = "ok" /\ "ses" \in hist.crash) =>
               \A k, l \in 1..Len(docs) :
                   (/\ k # l
                    /\ docs[k].id \in DOMAIN hist.cover
                    /\ docs[l].id \in DOMAIN hist.cover
                    /\ hist.cover[docs[k].id].sessionId
                           = hist.cover[docs[l].id].sessionId)
                   => hist.cover[docs[k].id].covers
                          \cap hist.cover[docs[l].id].covers = {}

\* A chunk of the persisted store covers message m (0-based) of the log of
\* sid.
stored(sid, m) ==
    \E k \in 1..Len(docsOf(indexFile)) :
        LET id == docsOf(indexFile)[k].id
        IN  /\ id \in DOMAIN hist.cover
            /\ hist.cover[id].sessionId = sid
            /\ m \in hist.cover[id].covers

\* C23 (eventual ingestion): with ingest-sessions.js invoked whenever the
\* cooldown has elapsed, an embedding service that answers, and nothing else
\* going on but runs of index.js and appends to the session logs, every
\* message that passes the noise filter ends up in a chunk of the persisted
\* store and remains there.  What a finite run can refute of this is that
\* it remains there: a message that a chunk of the store covers is covered
\* by a chunk of the store after every step.
C23_EventualIngestion ==
    [][\A sid \in Sids : \A m \in 0..(MaxLog - 1) :
           stored(sid, m) => stored(sid, m)']_vars

\* C24 (corrupt persisted input is never fatal): a run over a session log
\* with an unparseable line, over a corrupt store, over a corrupt file
\* tracker or over a corrupt session tracker does not end in the error
\* state; the embedding service answers, so that nothing else can fail.
C24_CorruptNeverFatal ==
    /\ idx.pc = "done" => idx.out.status # "error"
    /\ ses.pc = "done" => ses.out.status # "error"

\* C25 (bounded submission): no text handed to the embedding service, by
\* index.js, by ingest.js, by ingest-sessions.js or by search.js, is longer
\* than 8000 characters.
C25_BoundedSubmission ==
    /\ \A i \in 1..Len(idx.sent) : idx.sent[i] <= maxEmbedChars
    /\ \A i \in 1..Len(ing.sent) : ing.sent[i] <= maxEmbedChars
    /\ \A i \in 1..Len(ses.sent) : ses.sent[i] <= maxEmbedChars
    /\ \A i \in 1..Len(sea.sent) : sea.sent[i] <= maxEmbedChars

====
